---- MODULE Spec2Model ----
(***************************************************************************)
(* IT-News classification service: the Classification Engine                *)
(* (app/classifier.py), the Fetch Orchestrator (app/fetcher.py), the HTTP  *)
(* handlers (app/routes/articles.py) and the articles table they share.    *)
(*                                                                         *)
(* Numbers.  Scores are exact rationals [num, den] in lowest terms; the    *)
(* float rounding of the Python code is outside the model.  Label weights  *)
(* and the threshold are in tenths (WeightDen).  Times are in hours.       *)
(***************************************************************************)
EXTENDS Integers, Sequences, FiniteSets, TLC

\* ------------------------------------------------------------------ bounds
MaxFeed == 2       \* entries one feed yields in one fetch
MaxBatch == 2      \* items of one POST /ingest batch
MaxTime == 1       \* clock readings and publication times: 0..MaxTime half-lives
Grain == 4         \* SpecScore: confidences are multiples of 1/Grain

\* --------------------------------------------------------------- rationals
RECURSIVE GCD(_, _)
GCD(a, b) == IF b = 0 THEN a ELSE GCD(b, a % b)

Rat(n, d) == LET g == GCD(n, d) IN [num |-> n \div g, den |-> d \div g]
RatMul(x, y) == Rat(x.num * y.num, x.den * y.den)
RatLess(x, y) == x.num * y.den < y.num * x.den
RatLeq(x, y) == x.num * y.den <= y.num * x.den

RECURSIVE Pow2(_)
Pow2(k) == IF k = 0 THEN 1 ELSE 2 * Pow2(k - 1)

RECURSIVE SumSeq(_)
SumSeq(s) == IF s = <<>> THEN 0 ELSE Head(s) + SumSeq(Tail(s))

Range(s) == {s[i] : i \in 1..Len(s)}

\* Python's None, and a value that is not None
None == <<>>
Some(x) == <<x>>
Val(o) == o[1]

\* ------------------------------------------------- classifier.py constants
\* LABEL_WEIGHTS keys in declaration order
Labels ==
    << "cybersecurity incident or data breach",
       "system outage or service disruption",
       "critical software bug or vulnerability",
       "software release or patch",
       "general technology news" >>

WeightDen == 10

\* LABEL_WEIGHTS in tenths
LABEL_WEIGHTS ==
    [l \in Range(Labels) |->
        CASE l = "cybersecurity incident or data breach" -> 10
          [] l = "system outage or service disruption" -> 10
          [] l = "critical software bug or vulnerability" -> 9
          [] l = "software release or patch" -> 5
          [] l = "general technology news" -> 2]

\* IMPORTANCE_THRESHOLD = 0.5, in tenths
IMPORTANCE_THRESHOLD == 5

RECENCY_HALF_LIFE_HOURS == 48

\* ------------------------------------------------------------ Topic Scorer
\* What pipe(title, candidate_labels=...) returns: the labels in the order
\* the scorer lists them and, aligned, their confidences scores[i] / den.
\* The confidences sum to 1: den is the sum of the numerators.
ScorerResult(labels, scores) ==
    [raised |-> FALSE, labels |-> labels, scores |-> scores,
     den |-> SumSeq(scores)]

\* an exception instead of a value
Raised == [raised |-> TRUE]

\* ---------------------------------------------------- _compute_importance
\* weights looked up by position in LABEL_WEIGHTS, not by the label
WeightedScores_ByPosition(result) ==
    [i \in 1..Len(result.labels) |->
        result.scores[i] * LABEL_WEIGHTS[Labels[i]]]

\* weighted_scores, in the dict's insertion order (the order of the result)
WeightedScores(result) ==
    [i \in 1..Len(result.labels) |->
        result.scores[i] * LABEL_WEIGHTS[result.labels[i]]]

\* a max that keeps the last of several greatest values
FirstMaxIndex_Last(ws) ==
    CHOOSE i \in 1..Len(ws) :
        /\ \A j \in 1..Len(ws) : ws[j] <= ws[i]
        /\ \A j \in (i + 1)..Len(ws) : ws[j] < ws[i]

\* max(weighted_scores, key=weighted_scores.get): the first key, in the
\* dict's iteration order, whose value no other key exceeds
FirstMaxIndex(ws) ==
    CHOOSE i \in 1..Len(ws) :
        /\ \A j \in 1..Len(ws) : ws[j] <= ws[i]
        /\ \A j \in 1..(i - 1) : ws[j] < ws[i]

\* a scorer that raises, a label missing from LABEL_WEIGHTS (KeyError) or
\* an empty result (max of nothing) raise out of _compute_importance
ComputeImportance(scorer) ==
    IF scorer.raised THEN Raised
    ELSE IF \/ Len(scorer.labels) = 0
            \/ \E i \in 1..Len(scorer.labels) :
                   scorer.labels[i] \notin DOMAIN LABEL_WEIGHTS
    THEN Raised
    ELSE LET ws == WeightedScores(scorer)
         IN  [raised |-> FALSE,
              importance_score |-> Rat(SumSeq(ws), scorer.den * WeightDen),
              category |-> scorer.labels[FirstMaxIndex(ws)]]

\* ------------------------------------------------------- _compute_recency
\* The least positive double is 2^-1074: math.exp gives 0.0 for a result
\* below half of it, that is for more than DoubleMinExp half-lives.
DoubleMinExp == 1075

\* published_at = [t |-> hours, tz |-> "utc" or "naive"]; a naive timestamp
\* is read as UTC.  exp(-ln(2)/48 * h) is 2^-(h/48); h is a multiple of 48
\* in every input the model draws, and h/48 is small or above DoubleMinExp.
ComputeRecency(published_at, now) ==
    LET aware == IF published_at.tz = "naive"
                 THEN [published_at EXCEPT !.tz = "utc"]
                 ELSE published_at
        elapsed == now - aware.t
        hours_elapsed == IF elapsed < 0 THEN 0 ELSE elapsed
        half_lives == hours_elapsed \div RECENCY_HALF_LIFE_HOURS
    IN  IF half_lives > DoubleMinExp THEN Rat(0, 1)
        ELSE Rat(1, Pow2(half_lives))

\* ------------------------------------------------------------- data model
\* ArticleIngest (schemas.py) and the columns of Article (models.py) that
\* classify_and_save sets
ArticleIngest(id, source, title, body, published_at) ==
    [id |-> id, source |-> source, title |-> title, body |-> body,
     published_at |-> published_at]

Article(id, source, title, body, published_at, importance_score, recency_score, final_score, is_filtered, category) ==
    [id |-> id, source |-> source, title |-> title, body |-> body,
     published_at |-> published_at, importance_score |-> importance_score,
     recency_score |-> recency_score, final_score |-> final_score,
     is_filtered |-> is_filtered, category |-> category]

\* ------------------------------------------- classify_and_save, lines 116-150
\* a ranking that forgets the recency
FinalScore_ImportanceOnly(importance_score, recency_score) ==
    importance_score

\* final_score = importance_score * recency_score
FinalScore(importance_score, recency_score) ==
    RatMul(importance_score, recency_score)

\* a threshold that lets the boundary pass
IsFiltered_AtLeast(importance_score) ==
    RatLeq(Rat(IMPORTANCE_THRESHOLD, WeightDen), importance_score)

\* is_filtered = importance_score > IMPORTANCE_THRESHOLD
IsFiltered(importance_score) ==
    RatLess(Rat(IMPORTANCE_THRESHOLD, WeightDen), importance_score)

\* defaults of 0.0 in place of None
FailedArticle_ZeroScores(article) ==
    Article(article.id, article.source, article.title, article.body,
            article.published_at, Some(Rat(0, 1)), Some(Rat(0, 1)),
            Some(Rat(0, 1)), FALSE, None)

\* is_filtered initialised to True
FailedArticle_Filtered(article) ==
    Article(article.id, article.source, article.title, article.body,
            article.published_at, None, None, None, TRUE, None)

\* an importance of 0.0 where nothing was classified
FailedArticle_DefaultImportance(article) ==
    Article(article.id, article.source, article.title, article.body,
            article.published_at, Some(Rat(0, 1)), None, None, FALSE, None)

\* The try block assigns in sequence; an exception leaves what was not yet
\* assigned at its initial value (None, and is_filtered False).
FailedArticle(article) ==
    Article(article.id, article.source, article.title, article.body,
            article.published_at, None, None, None, FALSE, None)

ClassifyArticle(article, scorer, now) ==
    LET imp == ComputeImportance(scorer)
    IN  IF imp.raised
        THEN FailedArticle(article)
        ELSE LET importance_score == imp.importance_score
                 recency_score == ComputeRecency(article.published_at, now)
                 final_score == FinalScore(importance_score, recency_score)
                 is_filtered == IsFiltered(importance_score)
             IN  Article(article.id, article.source, article.title,
                         article.body, article.published_at,
                         Some(importance_score), Some(recency_score),
                         Some(final_score), is_filtered, Some(imp.category))

\* ------------------------------------------------- the inputs of the model
Ids == {"a", "b"}

\* the registry SOURCES (fetcher.py), its slugs in registry order
AllSources ==
    << "reddit-sysadmin", "ars-technica", "the-hacker-news", "toms-hardware" >>

\* the model runs the first NumSources adapters of the registry
NumSources == 2
SOURCES == SubSeq(AllSources, 1, NumSources)

Times == {k * RECENCY_HALF_LIFE_HOURS : k \in 0..MaxTime}

\* What the Topic Scorer answers for a title when it answers: the pipeline
\* lists the labels by descending confidence.  "breach" is Scenario A
\* (0.9 on cybersecurity, 0.025 on each other label); "patch" is all on
\* "software release or patch", an importance of exactly 0.5.
TopicScorer(title) ==
    IF title = "breach"
    THEN ScorerResult(Labels, <<36, 1, 1, 1, 1>>)
    ELSE ScorerResult(<<Labels[4], Labels[1], Labels[2], Labels[3], Labels[5]>>,
                      <<1, 0, 0, 0, 0>>)

\* title, body (a feed's summary, with its markup) and published_at an item
\* may carry
Contents ==
    { [title |-> "breach", body |-> Some("<p>text</p>"),
       published_at |-> [t |-> 0, tz |-> "utc"]],
      [title |-> "patch", body |-> None,
       published_at |-> [t |-> MaxTime * RECENCY_HALF_LIFE_HOURS,
                         tz |-> "naive"]] }

\* a feedparser entry: id and link may be missing
\* (entry.get gives None), as may its title and its date; malformed: a field
\* of a type that makes .strip() or the validation of ArticleIngest raise
Entry(id, link, c) ==
    [id |-> id, link |-> link, title |-> Some(c.title), summary |-> c.body,
     published |-> Some(c.published_at), malformed |-> FALSE]

Entries ==
    LET breach == CHOOSE x \in Contents : x.title = "breach"
        patch == CHOOSE x \in Contents : x.title = "patch"
    IN  { Entry(Some("a"), None, breach),
          Entry(Some("b"), Some("a"), patch),
          Entry(None, Some("a"), patch),
          Entry(None, None, patch) }

RECURSIVE SeqsUpTo(_, _)
SeqsUpTo(S, n) ==
    IF n = 0 THEN {<<>>}
    ELSE LET shorter == SeqsUpTo(S, n - 1)
         IN  shorter \cup {Append(s, x) : s \in shorter, x \in S}

\* what feedparser.parse gives: the entries of the feed, or an exception
Feeds ==
    {[raised |-> FALSE, entries |-> f] : f \in SeqsUpTo(Entries, MaxFeed)}
        \cup {Raised}

\* strip_html on the summaries the model draws: the tags go, the text stays
StripHtml(text) ==
    CASE text = "<p>text</p>" -> "text"
      [] text = "<br/>" -> ""
      [] OTHER -> text

\* ------------------------------------------------------------- parse_date
\* the entry's date as UTC, or the current time when it has none
ParseDate(entry, now) ==
    IF entry.published # None THEN Val(entry.published)
    ELSE [t |-> now, tz |-> "utc"]

\* ---------------------------------------------------------- RSSSource.fetch
\* a test for None where the code tests for falsy
Truthy_NotNone(o) == o # None

\* x or y on optional strings: None and "" are falsy
Truthy(o) == o # None /\ o # Some("")

\* a loop that skips the entry that raises and keeps the others
RECURSIVE Normalize_SkipMalformed(_, _, _)
Normalize_SkipMalformed(source_name, entries, now) ==
    IF entries = <<>> THEN [raised |-> FALSE, articles |-> <<>>]
    ELSE LET entry == Head(entries)
             article_id == IF Truthy(entry.id) THEN entry.id ELSE entry.link
             raw_body == IF entry.summary # None THEN Val(entry.summary) ELSE ""
             title == IF entry.title # None THEN Val(entry.title) ELSE ""
             body == IF StripHtml(raw_body) # ""
                     THEN Some(StripHtml(raw_body)) ELSE None
             rest == Normalize_SkipMalformed(source_name, Tail(entries), now)
         IN  IF ~Truthy(article_id) \/ entry.malformed THEN rest
             ELSE [raised |-> FALSE,
                   articles |->
                       <<ArticleIngest(Val(article_id), source_name, title,
                                       body, ParseDate(entry, now))>>
                           \o rest.articles]

\* lines 70-92, the loop over feed.entries: the articles appended so far,
\* or the exception an entry raised
RECURSIVE Normalize(_, _, _)
Normalize(source_name, entries, now) ==
    IF entries = <<>> THEN [raised |-> FALSE, articles |-> <<>>]
    ELSE LET entry == Head(entries)
             article_id == IF Truthy(entry.id) THEN entry.id ELSE entry.link
             raw_body == IF entry.summary # None THEN Val(entry.summary) ELSE ""
             title == IF entry.title # None THEN Val(entry.title) ELSE ""
             body == IF StripHtml(raw_body) # ""
                     THEN Some(StripHtml(raw_body)) ELSE None
             rest == Normalize(source_name, Tail(entries), now)
         IN  IF ~Truthy(article_id) THEN rest
             ELSE IF entry.malformed \/ rest.raised THEN Raised
             ELSE [raised |-> FALSE,
                   articles |->
                       <<ArticleIngest(Val(article_id), source_name, title,
                                       body, ParseDate(entry, now))>>
                           \o rest.articles]

\* lines 67-95, the try block: feedparser.parse, then the loop
TryFetch(source_name, feed, now) ==
    IF feed.raised THEN Raised ELSE Normalize(source_name, feed.entries, now)

\* a fetch without its except clause
RSSFetch_Uncaught(source_name, feed, now) ==
    TryFetch(source_name, feed, now)

\* fetch(): except Exception gives the empty list
RSSFetch(source_name, feed, now) ==
    LET body == TryFetch(source_name, feed, now)
    IN  IF body.raised THEN [raised |-> FALSE, articles |-> <<>>] ELSE body

\* the items a POST /ingest batch may hold
IngestItems ==
    {ArticleIngest(i, "api", c.title,
                   IF c.body = None THEN None ELSE Some("text"),
                   c.published_at) :
        i \in Ids, c \in Contents}

\* ================================================================== state
\* The periodic task (FetcherService.run on the event loop) and one
\* threadpool worker serving the HTTP requests run concurrently.
Procs == {"periodic", "worker"}

VARIABLES
    store,      \* the articles table: committed rows, keyed by id
    pc,         \* where each process is
    frame,      \* the locals of the handler each process runs
    response,   \* what the caller of the handler that just ended receives
    retrieved,  \* the last retrieval's result, if no row was written since
    started,    \* SpecThreads: the handlers each process has started
    scorerIn,   \* SpecScore: the scorer's answer and the article scored
    scored,     \* SpecScore: what the classifier computed from it
    feedIn,     \* SpecFetch: the adapter, what its feed holds, the clock
    fetched,    \* SpecFetch: what fetch() returned or raised
    clock,      \* datetime.now(timezone.utc), in hours
    pipeline    \* classifier._pipeline, and the times it was loaded

vars ==
    <<store, pc, frame, response, retrieved, started, scorerIn, scored, feedIn,
      fetched, clock, pipeline>>

IdleFrame ==
    [kind |-> "none", src |-> 0, queue |-> <<>>, n |-> 0, db |-> "closed",
     article |-> None, loaded |-> None, raised |-> FALSE,
     merges |-> 0, commits |-> 0, failed |-> {}, yielded |-> {},
     missing |-> {}, done |-> 0]

\* item: the position, in the list the handler was going through, of the
\* item at which an exception left it (0: none)
NoResponse ==
    [status |-> "none", error |-> "", received |-> 0, result |-> <<>>,
     detail |-> {}, item |-> 0]
OkResponse ==
    [status |-> "ok", error |-> "", received |-> 0, result |-> <<>>,
     detail |-> {}, item |-> 0]
ErrorResponse(e) ==
    [status |-> "error", error |-> e, received |-> 0, result |-> <<>>,
     detail |-> {}, item |-> 0]
\* 422: the fields the validation of the body found missing
ValidationResponse(detail) ==
    [ErrorResponse("ValidationError") EXCEPT !.detail = detail]

\* self._pipeline = None: no handle cached, nothing loaded
NoPipeline == [cached |-> FALSE, loads |-> 0]

NoInput == [scorer |-> Raised, article |-> None, now |-> 0]
NoFeed == [source_name |-> "", feed |-> Raised, now |-> 0]

Init ==
    /\ store = [i \in {} |-> None]
    /\ pc = [p \in Procs |-> IF p = "periodic" THEN "sleep" ELSE "idle"]
    /\ frame = [p \in Procs |-> IdleFrame]
    /\ response = [p \in Procs |-> NoResponse]
    /\ retrieved = None
    /\ started = [p \in Procs |-> 0]
    /\ scorerIn = NoInput
    /\ scored = None
    /\ feedIn = NoFeed
    /\ fetched = None
    /\ clock = 0
    /\ pipeline = NoPipeline

\* time passes, one half-life at a time
Tick ==
    /\ clock < MaxTime * RECENCY_HALF_LIFE_HOURS
    /\ clock' = clock + RECENCY_HALF_LIFE_HOURS
    /\ UNCHANGED <<store, pc, frame, response, retrieved, started, scorerIn,
                   scored, feedIn, fetched, pipeline>>

\* ------------------------------------------------- the end of a handler
\* The handler of p ends.  The periodic task goes to its sleep, or is dead
\* once an exception has left run(); the worker answers its request.
Finish(p, resp) ==
    /\ pc' = [pc EXCEPT ![p] =
                 IF p = "periodic"
                 THEN (IF resp.status = "error" THEN "crashed" ELSE "sleep")
                 ELSE "respond"]
    /\ frame' = [frame EXCEPT ![p] = IdleFrame]
    /\ response' = [response EXCEPT ![p] =
                       IF p = "periodic" /\ resp.status = "ok"
                       THEN NoResponse ELSE resp]

\* the response is sent; the worker is free for the next request
Respond ==
    /\ pc["worker"] = "respond"
    /\ pc' = [pc EXCEPT !["worker"] = "idle"]
    /\ response' = [response EXCEPT !["worker"] = NoResponse]
    /\ UNCHANGED <<store, frame, retrieved, started, scorerIn, scored, feedIn, fetched, clock, pipeline>>

\* p starts a handler; max bounds the handlers a process starts (0: no bound)
Start(p, max) ==
    /\ max = 0 \/ started[p] < max
    /\ started' = IF max = 0 THEN started ELSE [started EXCEPT ![p] = @ + 1]

\* ------------------------------------------------ FetcherService._fetch_all
\* run(): the sleep is over, the next cycle starts
Wake(max) ==
    /\ pc["periodic"] = "sleep"
    /\ Start("periodic", max)
    /\ pc' = [pc EXCEPT !["periodic"] = "fetch"]
    /\ frame' = [frame EXCEPT !["periodic"] =
                    [IdleFrame EXCEPT !.kind = "cycle", !.src = 1]]
    /\ UNCHANGED response
    /\ UNCHANGED <<store, retrieved, scorerIn, scored, feedIn, fetched, clock, pipeline>>

\* POST /fetch: trigger_fetch runs the same cycle on the worker
TriggerFetch(max) ==
    /\ pc["worker"] = "idle"
    /\ Start("worker", max)
    /\ pc' = [pc EXCEPT !["worker"] = "fetch"]
    /\ frame' = [frame EXCEPT !["worker"] =
                    [IdleFrame EXCEPT !.kind = "cycle", !.src = 1]]
    /\ UNCHANGED <<store, response, retrieved, scorerIn, scored, feedIn, fetched, clock, pipeline>>

\* a loop that gives up the cycle at the first source that failed
NextSource_Break(p, f) ==
    IF f.src < Len(SOURCES) /\ f.src \notin f.failed
    THEN /\ pc' = [pc EXCEPT ![p] = "fetch"]
         /\ frame' = [frame EXCEPT ![p] =
                         [f EXCEPT !.src = f.src + 1, !.queue = <<>>,
                                   !.db = "closed", !.done = 0]]
         /\ UNCHANGED response
    ELSE /\ pc' = [pc EXCEPT ![p] = "complete"]
         /\ frame' = [frame EXCEPT ![p] =
                         [f EXCEPT !.queue = <<>>, !.db = "closed",
                                   !.done = 0]]
         /\ UNCHANGED response

\* a loop that keeps the session of a source open for the sources after it
NextSource_KeepsSession(p, f) ==
    IF f.src < Len(SOURCES)
    THEN /\ pc' = [pc EXCEPT ![p] = "fetch"]
         /\ frame' = [frame EXCEPT ![p] =
                         [f EXCEPT !.src = f.src + 1, !.queue = <<>>,
                                   !.done = 0]]
         /\ UNCHANGED response
    ELSE /\ pc' = [pc EXCEPT ![p] = "complete"]
         /\ frame' = [frame EXCEPT ![p] = [f EXCEPT !.queue = <<>>, !.done = 0]]
         /\ UNCHANGED response

\* the for loop goes to the next source, or the cycle is complete
NextSource(p, f) ==
    IF f.src < Len(SOURCES)
    THEN /\ pc' = [pc EXCEPT ![p] = "fetch"]
         /\ frame' = [frame EXCEPT ![p] =
                         [f EXCEPT !.src = f.src + 1, !.queue = <<>>,
                                   !.db = "closed", !.done = 0]]
         /\ UNCHANGED response
    ELSE /\ pc' = [pc EXCEPT ![p] = "complete"]
         /\ frame' = [frame EXCEPT ![p] =
                         [f EXCEPT !.queue = <<>>, !.db = "closed",
                                   !.done = 0]]
         /\ UNCHANGED response

\* articles = source.fetch(); no articles: continue; else a session is
\* opened for this source
Fetch(p, feeds) ==
    /\ pc[p] = "fetch"
    /\ \E feed \in feeds :
          LET f == frame[p]
              now == clock
              fetch == RSSFetch(SOURCES[f.src], feed, now)
              articles == fetch.articles
              failed == TryFetch(SOURCES[f.src], feed, now).raised
          IN  IF fetch.raised
              THEN Finish(p, ErrorResponse("FetchError"))
              ELSE IF articles = <<>>
              THEN NextSource(p, [f EXCEPT !.failed =
                                     IF failed THEN @ \cup {f.src} ELSE @])
              ELSE /\ pc' = [pc EXCEPT ![p] = "classify"]
                   /\ frame' = [frame EXCEPT ![p] =
                         [f EXCEPT !.queue = articles, !.db = "open",
                                   !.yielded = @ \cup
                                       {articles[i].id : i \in 1..Len(articles)}]]
                   /\ UNCHANGED response
    /\ UNCHANGED <<store, retrieved, started, scorerIn, scored, feedIn, fetched, clock, pipeline>>

\* "Fetch cycle complete": _fetch_all returns
Complete(p) ==
    /\ pc[p] = "complete"
    /\ Finish(p, OkResponse)
    /\ UNCHANGED <<store, retrieved, started, scorerIn, scored, feedIn, fetched, clock, pipeline>>

\* ------------------------------------------ ClassifierService.classify_and_save
\* a loop that catches the exception of an item and goes on to the next
Propagate_SkipItem(p, e) ==
    /\ pc' = [pc EXCEPT ![p] = "return"]
    /\ UNCHANGED <<frame, response>>

\* a failed write that is caught and tried again
Propagate_Retry(p, e) ==
    IF frame[p].merges >= 2
    THEN Finish(p, ErrorResponse(e))
    ELSE /\ pc' = [pc EXCEPT ![p] = "classify"]
         /\ frame' = [frame EXCEPT ![p].merges =
                         IF pc[p] = "classify" THEN @ + 1 ELSE @]
         /\ UNCHANGED response

\* An exception leaves classify_and_save: _fetch_all closes its session in
\* the finally and lets it through, so run() ends; get_db closes the
\* session of a request, which is answered with an error.
Propagate(p, e) ==
    Finish(p, [ErrorResponse(e) EXCEPT !.item = frame[p].done + 1])


\* _get_pipeline(): the handle cached, or the model loaded and cached
GetPipeline(pl) ==
    IF pl.cached THEN pl ELSE [cached |-> TRUE, loads |-> pl.loads + 1]

\* db.merge(db_article): the row with this primary key is read from the
\* table; the object merged either updates it or is new
Loaded(st, id) == IF id \in DOMAIN st THEN Some(st[id]) ELSE None

\* lines 116-153: the article at the head of the loop is classified (the
\* scorer answers or raises, the clock is read) and merged into the session
\* or the table fails the read (StoreError) and the exception leaves.  A
\* scorer that answers has its pipeline cached; one that raises failed to
\* load it, or raised on this title.
Merge(p) ==
    /\ pc[p] = "classify"
    /\ \E answers \in BOOLEAN, fault \in BOOLEAN :
          LET f == frame[p]
              now == clock
              article == Head(f.queue)
              scorer == IF answers THEN TopicScorer(article.title) ELSE Raised
              db_article == ClassifyArticle(article, scorer, now)
          IN  /\ pipeline' = IF answers THEN GetPipeline(pipeline)
                              ELSE pipeline
              /\ IF fault
                 THEN Propagate(p, "StoreError")
                 ELSE
                   /\ frame' = [frame EXCEPT ![p] =
                         [f EXCEPT !.article = Some(db_article),
                                   !.loaded = Loaded(store, article.id),
                                   !.raised = ~answers,
                                   !.merges = @ + 1]]
                   /\ pc' = [pc EXCEPT ![p] = "commit"]
                   /\ UNCHANGED response
    /\ UNCHANGED <<store, retrieved, started, scorerIn, scored, feedIn, fetched, clock>>

\* a row of the table: the columns classify_and_save sets, and ingested_at
Stored(row, ingested_at) ==
    [id |-> row.id, source |-> row.source, title |-> row.title,
     body |-> row.body, published_at |-> row.published_at,
     importance_score |-> row.importance_score,
     recency_score |-> row.recency_score, final_score |-> row.final_score,
     is_filtered |-> row.is_filtered, category |-> row.category,
     ingested_at |-> ingested_at]

\* the columns of a row that classify_and_save sets
Columns(r) ==
    Article(r.id, r.source, r.title, r.body, r.published_at,
            r.importance_score, r.recency_score, r.final_score,
            r.is_filtered, r.category)

\* INSERT of a new object: ingested_at, which the object does not set, takes
\* its default, the time of the INSERT
Insert(st, row, now) ==
    [i \in DOMAIN st \cup {row.id} |->
        IF i = row.id THEN Stored(row, now) ELSE st[i]]

\* a merge that copies only the attributes that are not None
Written_SkipNulls(c, row, loaded, current) ==
    IF c \in {"body", "importance_score", "recency_score", "final_score",
              "category"} /\ row[c] = None
    THEN current[c]
    ELSE row[c]

\* UPDATE of a loaded object: the unit of work writes the columns whose
\* value differs from the value loaded, and no other; ingested_at, which
\* merge() found unset on the object given and did not copy, is not written
Written(c, row, loaded, current) ==
    IF row[c] # loaded[c] THEN row[c] ELSE current[c]

\* an update that keeps the scores of a row when the new record has none
Update_KeepsScored(st, row, loaded) ==
    IF row.final_score = None /\ st[row.id].final_score # None
    THEN st
    ELSE [st EXCEPT ![row.id] = Stored(row, @.ingested_at)]

Update(st, row, loaded) ==
    [st EXCEPT ![row.id] =
      Stored(
        Article(Written("id", row, loaded, @),
                Written("source", row, loaded, @),
                Written("title", row, loaded, @),
                Written("body", row, loaded, @),
                Written("published_at", row, loaded, @),
                Written("importance_score", row, loaded, @),
                Written("recency_score", row, loaded, @),
                Written("final_score", row, loaded, @),
                Written("is_filtered", row, loaded, @),
                Written("category", row, loaded, @)),
        @.ingested_at)]

\* db.commit(): the flush inserts the new object, and the table refuses a
\* primary key it already holds (IntegrityError), or updates the loaded one
\* or the table fails the write (StoreError)
Commit(p) ==
    /\ pc[p] = "commit"
    /\ \E fault \in BOOLEAN :
          LET f == frame[p]
              row == Val(f.article)
          IN  IF fault
              THEN /\ Propagate(p, "StoreError")
                   /\ UNCHANGED <<store, retrieved>>
              ELSE IF f.loaded = None /\ row.id \in DOMAIN store
              THEN /\ Propagate(p, "IntegrityError")
                   /\ UNCHANGED <<store, retrieved>>
              ELSE /\ store' = IF f.loaded = None
                               THEN Insert(store, row, clock)
                               ELSE Update(store, row, Val(f.loaded))
                   /\ retrieved' = None
                   /\ pc' = [pc EXCEPT ![p] = "return"]
                   /\ frame' = [frame EXCEPT ![p] = [f EXCEPT !.commits = @ + 1]]
                   /\ UNCHANGED response
    /\ UNCHANGED <<started, scorerIn, scored, feedIn, fetched, clock, pipeline>>

\* an acknowledgment that leaves out an item whose classification failed
Ack_SkipsFailed(f) ==
    [OkResponse EXCEPT !.received = IF f.raised THEN f.n - 1 ELSE f.n]

\* return {"status": "ok", "received": len(articles)}
Ack(f) == [OkResponse EXCEPT !.received = f.n]

\* a loop that takes its articles from the end of the list
Return_FromEnd(p) ==
    /\ pc[p] = "return"
    /\ LET f == frame[p]
           rest == [f EXCEPT !.queue = SubSeq(f.queue, 1, Len(f.queue) - 1),
                             !.article = None,
                             !.loaded = None, !.raised = FALSE,
                             !.merges = 0, !.commits = 0,
                             !.done = @ + 1]
       IN  IF rest.queue # <<>>
           THEN /\ pc' = [pc EXCEPT ![p] = "classify"]
                /\ frame' = [frame EXCEPT ![p] = rest]
                /\ UNCHANGED response
           ELSE IF f.kind = "cycle"
           THEN NextSource(p, rest)
           ELSE Finish(p, Ack(f))
    /\ UNCHANGED <<store, retrieved, started, scorerIn, scored, feedIn, fetched, clock, pipeline>>

\* return db_article: the caller's loop takes the next article, or ends
Return(p) ==
    /\ pc[p] = "return"
    /\ LET f == frame[p]
           rest == [f EXCEPT !.queue = Tail(f.queue), !.article = None,
                             !.loaded = None, !.raised = FALSE,
                             !.merges = 0, !.commits = 0,
                             !.done = @ + 1]
       IN  IF rest.queue # <<>>
           THEN /\ pc' = [pc EXCEPT ![p] = "classify"]
                /\ frame' = [frame EXCEPT ![p] = rest]
                /\ UNCHANGED response
           ELSE IF f.kind = "cycle"
           THEN NextSource(p, rest)
           ELSE Finish(p, Ack(f))
    /\ UNCHANGED <<store, retrieved, started, scorerIn, scored, feedIn, fetched, clock, pipeline>>

\* ------------------------------------------------------------ POST /ingest
\* The body of a request is a list of JSON objects, any field of which may
\* be absent (None).  Payload: the object a valid ArticleIngest comes from.
Payload(article) ==
    [id |-> Some(article.id), source |-> Some(article.source),
     title |-> Some(article.title), body |-> article.body,
     published_at |-> Some(article.published_at)]

PayloadsOf(batches) ==
    {[i \in 1..Len(b) |-> Payload(b[i])] : b \in batches}

\* the fields of ArticleIngest without a default: absent, they fail validation
MissingFields(item) ==
    {c \in {"id", "source", "title", "published_at"} : item[c] = None}

MissingIn(body) == UNION {MissingFields(body[i]) : i \in 1..Len(body)}

\* a validation that skips the items it cannot parse
Validate_DropInvalid(body) ==
    LET valid == SelectSeq(body, LAMBDA item : MissingFields(item) = {})
    IN  [raised |-> FALSE, detail |-> {},
         articles |-> [i \in 1..Len(valid) |->
                         ArticleIngest(Val(valid[i].id), Val(valid[i].source),
                                       Val(valid[i].title), valid[i].body,
                                       Val(valid[i].published_at))]]

\* articles: List[ArticleIngest]: the framework parses the whole body before
\* it calls the handler, and answers 422 when an item fails
Validate(body) ==
    IF MissingIn(body) # {}
    THEN [raised |-> TRUE, detail |-> MissingIn(body), articles |-> <<>>]
    ELSE [raised |-> FALSE, detail |-> {},
          articles |-> [i \in 1..Len(body) |->
                          ArticleIngest(Val(body[i].id), Val(body[i].source),
                                        Val(body[i].title), body[i].body,
                                        Val(body[i].published_at))]]

Ingest(bodies, max) ==
    /\ pc["worker"] = "idle"
    /\ Start("worker", max)
    /\ \E body \in bodies :
          LET parsed == Validate(body)
              articles == parsed.articles
          IN  IF parsed.raised
              THEN Finish("worker", ValidationResponse(parsed.detail))
              ELSE IF articles = <<>>
              THEN Finish("worker", Ack(IdleFrame))
              ELSE /\ pc' = [pc EXCEPT !["worker"] = "classify"]
                   /\ frame' = [frame EXCEPT !["worker"] =
                         [IdleFrame EXCEPT !.kind = "ingest",
                                           !.queue = articles,
                                           !.n = Len(articles), !.db = "open",
                                           !.missing = MissingIn(body)]]
                   /\ UNCHANGED response
    /\ UNCHANGED <<store, retrieved, scorerIn, scored, feedIn, fetched, clock, pipeline>>

\* ------------------------------------------- GET /retrieve, GET /articles
\* NULL sorts below every value
ScoreLess(x, y) ==
    IF y = None THEN FALSE
    ELSE IF x = None THEN TRUE
    ELSE RatLess(Val(x), Val(y))

Filtered(st) == {i \in DOMAIN st : st[i].is_filtered = TRUE}

Injective(s) == \A i, j \in 1..Len(s) : s[i] = s[j] => i = j

\* the query without its filter
Query_Unfiltered(st) ==
    {s \in SeqsUpTo(DOMAIN st, Cardinality(DOMAIN st)) :
        /\ Len(s) = Cardinality(DOMAIN st)
        /\ Injective(s)
        /\ \A i, j \in 1..Len(s) :
              i < j => ~ScoreLess(st[s[i]].final_score, st[s[j]].final_score)}

\* filter(is_filtered == True).order_by(final_score.desc()).all(): the rows
\* in an order by descending final_score; the order of rows with equal
\* final_score is whatever the table gives
Query(st) ==
    {s \in SeqsUpTo(Filtered(st), Cardinality(Filtered(st))) :
        /\ Len(s) = Cardinality(Filtered(st))
        /\ Injective(s)
        /\ \A i, j \in 1..Len(s) :
              i < j => ~ScoreLess(st[s[i]].final_score, st[s[j]].final_score)}

\* ArticleResponse: what /retrieve shows of a row
ArticleResponse(row) ==
    [id |-> row.id, source |-> row.source, title |-> row.title,
     body |-> row.body, published_at |-> row.published_at]

Retrieve(max) ==
    /\ pc["worker"] = "idle"
    /\ Start("worker", max)
    /\ \E articles \in Query(store) :
          /\ response' = [response EXCEPT !["worker"] =
                             [OkResponse EXCEPT !.result = articles]]
          /\ retrieved' = Some(articles)
    /\ pc' = [pc EXCEPT !["worker"] = "respond"]
    /\ UNCHANGED <<store, frame, scorerIn, scored, feedIn, fetched, clock, pipeline>>

ArticlesFull(max) ==
    /\ pc["worker"] = "idle"
    /\ Start("worker", max)
    /\ \E articles \in Query(store) :
          /\ response' = [response EXCEPT !["worker"] =
                             [OkResponse EXCEPT !.result = articles]]
          /\ retrieved' = Some(articles)
    /\ pc' = [pc EXCEPT !["worker"] = "respond"]
    /\ UNCHANGED <<store, frame, scorerIn, scored, feedIn, fetched, clock, pipeline>>

\* ------------------------------------------------------------------- Spec
Batches == SeqsUpTo(IngestItems, MaxBatch)

Other(p) == IF p = "periodic" THEN "worker" ELSE "periodic"

\* q runs no handler
AtRest(q) == pc[q] \in {"sleep", "idle", "crashed"}

\* The handlers one at a time: a request is served between two cycles, a
\* cycle runs between two requests.  A handler takes less than the 48 hours
\* of one tick of the clock: the clock ticks between handlers.
Next ==
    \/ AtRest("periodic") /\ AtRest("worker") /\ Tick
    \/ AtRest("worker") /\ Wake(0)
    \/ AtRest("periodic") /\ TriggerFetch(0)
    \/ AtRest("periodic") /\ Ingest(PayloadsOf(Batches), 0)
    \/ AtRest("periodic") /\ Retrieve(0)
    \/ AtRest("periodic") /\ ArticlesFull(0)
    \/ AtRest("periodic") /\ Respond
    \/ \E p \in Procs : AtRest(Other(p)) /\ Fetch(p, Feeds)
    \/ \E p \in Procs : AtRest(Other(p)) /\ Merge(p)
    \/ \E p \in Procs : AtRest(Other(p)) /\ Commit(p)
    \/ \E p \in Procs : AtRest(Other(p)) /\ Return(p)
    \/ \E p \in Procs : AtRest(Other(p)) /\ Complete(p)

Spec == Init /\ [][Next]_vars

\* The handlers overlap: a cycle of the periodic task on the event loop's
\* thread and a request on a threadpool worker interleave at every read and
\* write of the table.  One id, feeds and batches of at most one item.
MaxRuns == 2
RaceEntries ==
    {e \in Entries : e.id = Some("a") /\ e.title = Some("breach")}
RaceFeeds ==
    {[raised |-> FALSE, entries |-> f] : f \in SeqsUpTo(RaceEntries, 1)}
        \cup {Raised}
RaceBatches ==
    SeqsUpTo({a \in IngestItems : a.id = "a" /\ a.title = "breach"}, 1)

\* run() is a coroutine of the event loop and calls _fetch_all as a plain
\* function: from the end of one sleep to the start of the next the loop
\* runs nothing else, so no request is read or handed to a worker thread.
\* The loop is free while the task sleeps, and once the task has ended.
LoopFree == pc["periodic"] \in {"sleep", "crashed"}

\* POST /fetch and POST /ingest are dispatched by the event loop; a handler
\* dispatched before a cycle began goes on in its thread during the cycle
OnDemandFetch == LoopFree /\ TriggerFetch(MaxRuns)
OnDemandIngest == LoopFree /\ Ingest(PayloadsOf(RaceBatches), MaxRuns)

\* lifespan: the application serves requests from the yield to the shutdown
Serving == pc["periodic"] # "cancelled"

\* lifespan, after the yield: the server has let the requests in flight end
\* and the shutdown code, run by the event loop, calls task.cancel().  The
\* CancelledError is raised in run() at its await, the sleep: _fetch_all has
\* no await.  (The cancel of a task that has ended changes nothing.)
Cancel ==
    /\ pc["worker"] = "idle"
    /\ pc["periodic"] = "sleep"
    /\ pc' = [pc EXCEPT !["periodic"] = "cancelled"]
    /\ UNCHANGED <<store, frame, response, retrieved, started, scorerIn, scored, feedIn, fetched, clock, pipeline>>

NextThreads ==
    \/ Tick
    \/ Wake(MaxRuns)
    \/ Cancel
    \/ OnDemandFetch
    \/ OnDemandIngest
    \/ Serving /\ Retrieve(MaxRuns)
    \/ Serving /\ ArticlesFull(MaxRuns)
    \/ Respond
    \/ \E p \in Procs : Fetch(p, RaceFeeds)
    \/ \E p \in Procs : Merge(p)
    \/ \E p \in Procs : Commit(p)
    \/ \E p \in Procs : Return(p)
    \/ \E p \in Procs : Complete(p)

SpecThreads == Init /\ [][NextThreads]_vars

\* --------------------------------------------------------------- SpecEdge
\* The requests of one worker on the inputs at the edge of what the API
\* and a feed may carry: bodies of up to MaxBody objects with a field absent
\* or an empty string, feeds of one entry without title or date.
MaxBody == 2

EdgeItems ==
    LET ok == Payload(ArticleIngest("a", "api", "breach", None,
                                    [t |-> 0, tz |-> "utc"]))
    IN  { ok,
          [ok EXCEPT !.id = None],
          [ok EXCEPT !.source = None],
          [ok EXCEPT !.title = None],
          [ok EXCEPT !.published_at = None],
          [ok EXCEPT !.id = Some("")],
          [ok EXCEPT !.title = Some("")] }

EdgeBodies == SeqsUpTo(EdgeItems, MaxBody)

EdgeFeeds ==
    LET c == CHOOSE x \in Contents : x.title = "breach"
        e == Entry(Some("b"), None, c)
    IN  {[raised |-> FALSE, entries |-> f] :
            f \in SeqsUpTo({e, [e EXCEPT !.title = None],
                            [e EXCEPT !.published = None],
                            [e EXCEPT !.malformed = TRUE],
                            Entry(None, None, c)}, 1)}
            \cup {Raised}

NextEdge ==
    \/ Tick
    \/ TriggerFetch(0)
    \/ Ingest(EdgeBodies, 0)
    \/ Retrieve(0)
    \/ Respond
    \/ Fetch("worker", EdgeFeeds)
    \/ Merge("worker")
    \/ Commit("worker")
    \/ Return("worker")
    \/ Complete("worker")

SpecEdge == Init /\ [][NextEdge]_vars

\* -------------------------------------------------------------- SpecScore
\* The classification alone, on every answer of the Topic Scorer the bounds
\* give: every distribution of Grain parts of confidence over the five
\* labels, listed in every order, Scenario A, and a scorer that raises.
Distributions == {s \in [1..Len(Labels) -> 0..Grain] : SumSeq(s) = Grain}

LabelOrders ==
    {[i \in 1..Len(Labels) |-> Labels[p[i]]] :
        p \in {q \in [1..Len(Labels) -> 1..Len(Labels)] :
                  \A i, j \in 1..Len(Labels) : q[i] = q[j] => i = j}}

ScorerAnswers ==
    {ScorerResult(labels, scores) :
        labels \in LabelOrders, scores \in Distributions}
        \cup {TopicScorer(t) : t \in {"breach", "patch"}}
        \cup {Raised}

\* the clock of a classification: the model's times, and a time MaxAge
\* half-lives (about six years) after the last
MaxAge == 1076
ScoreTimes == Times \cup {(MaxTime + MaxAge) * RECENCY_HALF_LIFE_HOURS}

ScoreInputs ==
    {[scorer |-> s, article |-> Some(a), now |-> n] :
        s \in ScorerAnswers, a \in {x \in IngestItems : x.id = "a"},
        n \in ScoreTimes}

InitScore ==
    /\ store = [i \in {} |-> None]
    /\ pc = [p \in Procs |-> IF p = "periodic" THEN "sleep" ELSE "idle"]
    /\ frame = [p \in Procs |-> IdleFrame]
    /\ response = [p \in Procs |-> NoResponse]
    /\ retrieved = None
    /\ started = [p \in Procs |-> 0]
    /\ scorerIn \in ScoreInputs
    /\ scored = None
    /\ feedIn = NoFeed
    /\ fetched = None
    /\ clock = 0
    /\ pipeline = NoPipeline

\* lines 116-150 of classify_and_save on the input drawn
Score ==
    /\ scored = None
    /\ scored' = Some(ClassifyArticle(Val(scorerIn.article), scorerIn.scorer,
                                      scorerIn.now))
    /\ UNCHANGED <<store, pc, frame, response, retrieved, started, scorerIn,
                   feedIn, fetched, clock, pipeline>>

NextScore == Score

SpecScore == InitScore /\ [][NextScore]_vars

\* -------------------------------------------------------------- SpecFetch
\* One fetch() alone, on feeds of up to MaxEntries entries that may lack an
\* id, a link, a title or a date, carry an empty id, or be malformed.
MaxEntries == 3

EdgeEntries ==
    LET c == CHOOSE x \in Contents : x.title = "breach"
        e == Entry(Some("a"), None, c)
    IN  { e,
          Entry(Some("b"), Some("a"), c),
          Entry(None, Some("b"), c),
          Entry(None, None, c),
          Entry(Some(""), Some("a"), c),
          Entry(Some(""), Some(""), c),
          [e EXCEPT !.title = None],
          [e EXCEPT !.published = None],
          [e EXCEPT !.summary = Some("<br/>")],
          [e EXCEPT !.malformed = TRUE],
          [Entry(None, None, c) EXCEPT !.malformed = TRUE] }

FetchInputs ==
    {[source_name |-> SOURCES[k], feed |-> feed, now |-> now] :
        k \in 1..Len(SOURCES), now \in Times,
        feed \in {[raised |-> FALSE, entries |-> f] :
                     f \in SeqsUpTo(EdgeEntries, MaxEntries)} \cup {Raised}}

InitFetch ==
    /\ store = [i \in {} |-> None]
    /\ pc = [p \in Procs |-> IF p = "periodic" THEN "sleep" ELSE "idle"]
    /\ frame = [p \in Procs |-> IdleFrame]
    /\ response = [p \in Procs |-> NoResponse]
    /\ retrieved = None
    /\ started = [p \in Procs |-> 0]
    /\ scorerIn = NoInput
    /\ scored = None
    /\ feedIn \in FetchInputs
    /\ fetched = None
    /\ clock = 0
    /\ pipeline = NoPipeline

\* articles = source.fetch()
FetchOnce ==
    /\ fetched = None
    /\ fetched' = Some(RSSFetch(feedIn.source_name, feedIn.feed, feedIn.now))
    /\ UNCHANGED <<store, pc, frame, response, retrieved, started, scorerIn,
                   scored, feedIn, clock, pipeline>>

NextFetch == FetchOnce


\* --------------------------------------------------------------- SpecLoad
\* _get_pipeline() alone, a line at a time, in the two threads that
\* classify: the event loop's, in a cycle, and a worker's, in a request
\* dispatched before the cycle began.  Each thread makes up to MaxCalls
\* calls.
MaxCalls == 2

Rest(p) == IF p = "periodic" THEN "sleep" ELSE "idle"

\* pipe = self._get_pipeline(): the call begins
CallPipeline(p) ==
    /\ pc[p] = Rest(p)
    /\ Start(p, MaxCalls)
    /\ pc' = [pc EXCEPT ![p] = "get_pipeline"]
    /\ UNCHANGED <<store, frame, response, retrieved, scorerIn, scored, feedIn, fetched, clock, pipeline>>

\* if self._pipeline is None
TestPipeline(p) ==
    /\ pc[p] = "get_pipeline"
    /\ pc' = [pc EXCEPT ![p] = IF pipeline.cached THEN "infer" ELSE "load"]
    /\ UNCHANGED <<store, frame, response, retrieved, started, scorerIn, scored, feedIn, fetched, clock, pipeline>>

\* self._pipeline = pipeline(...): the model is loaded and the handle
\* cached, or the load raises and the call ends
LoadPipeline(p) ==
    /\ pc[p] = "load"
    /\ \E loaded \in BOOLEAN :
          IF loaded
          THEN /\ pipeline' = [cached |-> TRUE, loads |-> pipeline.loads + 1]
               /\ pc' = [pc EXCEPT ![p] = "infer"]
          ELSE /\ pipeline' = pipeline
               /\ pc' = [pc EXCEPT ![p] = Rest(p)]
    /\ UNCHANGED <<store, frame, response, retrieved, started, scorerIn, scored, feedIn, fetched, clock>>

\* return self._pipeline: the caller runs the handle it was given
ReturnPipeline(p) ==
    /\ pc[p] = "infer"
    /\ pc' = [pc EXCEPT ![p] = Rest(p)]
    /\ UNCHANGED <<store, frame, response, retrieved, started, scorerIn, scored, feedIn, fetched, clock, pipeline>>

NextLoad ==
    \/ \E p \in Procs : CallPipeline(p)
    \/ \E p \in Procs : TestPipeline(p)
    \/ \E p \in Procs : LoadPipeline(p)
    \/ \E p \in Procs : ReturnPipeline(p)

SpecLoad == Init /\ [][NextLoad]_vars
SpecFetch == InitFetch /\ [][NextFetch]_vars

\* ================================================================= claims
RatEq(x, y) == x.num * y.den = y.num * x.den

\* the article whose classify_and_save p is in, and the record it built
CallOf(p) == Head(frame[p].queue)
RecordOf(p) == Val(frame[p].article)
InCall(p) == pc[p] \in {"commit", "return"}

\* ----------------------------------------------------------------------
\* C1: a classify_and_save of an id the table already holds leaves one row
\* for that id, equal in every column to the record of this second write,
\* and leaves the other rows and the number of rows as they were.
C1_UpsertOverwrites ==
    [][\A p \in Procs :
          (pc[p] = "commit" /\ pc'[p] = "return") =>
              LET row == RecordOf(p)
              IN  /\ row.id \in DOMAIN store'
                  /\ Columns(store'[row.id]) = row
                  /\ row.id \in DOMAIN store =>
                         Cardinality(DOMAIN store') = Cardinality(DOMAIN store)
                  /\ \A i \in DOMAIN store \ {row.id} : store'[i] = store[i]]_vars

\* a second write of an id has returned, and it differs from the row it
\* replaced in source, title, body, published_at and its scores
C1_Witness ==
    \E p \in Procs :
        /\ pc[p] = "return"
        /\ frame[p].loaded # None
        /\ LET old == Val(frame[p].loaded)
               row == RecordOf(p)
           IN  /\ old.source # row.source
               /\ old.title # row.title
               /\ old.body # row.body
               /\ old.published_at # row.published_at
               /\ old.importance_score # row.importance_score
               /\ old.is_filtered # row.is_filtered
               /\ Columns(store[row.id]) = row

\* ----------------------------------------------------------------------
\* C2: when the Topic Scorer raises in a classify_and_save, the record
\* built has the three scores and the category null, is_filtered false and
\* the raw fields of the item; it is merged once and committed once, the
\* row persisted is that record, and no caller ever receives the scorer's
\* exception (the only errors that leave are the table's).
C2_ScorerFailureStillSaves ==
    \A p \in Procs :
        /\ (InCall(p) /\ frame[p].raised) =>
              LET row == RecordOf(p)
                  item == CallOf(p)
              IN  /\ row.importance_score = None
                  /\ row.recency_score = None
                  /\ row.final_score = None
                  /\ row.category = None
                  /\ row.is_filtered = FALSE
                  /\ row.id = item.id
                  /\ row.source = item.source
                  /\ row.title = item.title
                  /\ row.body = item.body
                  /\ row.published_at = item.published_at
                  /\ frame[p].merges = 1
                  /\ pc[p] = "return" =>
                        /\ frame[p].commits = 1
                        /\ row.id \in DOMAIN store
                        /\ Columns(store[row.id]) = row
        /\ response[p].status = "error" =>
              response[p].error \in {"StoreError", "IntegrityError"}

\* a call in which the scorer raised has returned and its row is in the table
C2_Witness ==
    \E p \in Procs :
        /\ pc[p] = "return"
        /\ frame[p].raised
        /\ frame[p].commits = 1
        /\ store[RecordOf(p).id].importance_score = None
        /\ store[RecordOf(p).id].title = CallOf(p).title

\* ----------------------------------------------------------------------
\* C4: a source whose fetch fails does not end the cycle: the cycle is
\* complete only after the last source of the registry was fetched, every
\* article the other sources yielded is then in the table, and no failure
\* of a source reaches the caller of the cycle.
C4_SourceFailureIsolated ==
    \A p \in Procs :
        /\ pc[p] = "complete" =>
              /\ frame[p].src = Len(SOURCES)
              /\ frame[p].failed \subseteq 1..Len(SOURCES)
              /\ frame[p].yielded \subseteq DOMAIN store
        /\ (pc[p] = "crashed" \/ response[p].status = "error") =>
              response[p].error \in {"StoreError", "IntegrityError"}

\* Scenario D: the first source failed, the second yielded two articles,
\* the cycle is complete and both are in the table under the second source
C4_Witness ==
    \E p \in Procs :
        /\ pc[p] = "complete"
        /\ frame[p].failed = {1}
        /\ frame[p].yielded = Ids
        /\ \A i \in Ids : i \in DOMAIN store /\ store[i].source = SOURCES[2]

\* ----------------------------------------------------------------------
\* C5: what a retrieval returns holds each row with is_filtered true once,
\* holds no row with is_filtered false whatever its final_score, and
\* final_score never increases along it.
NotBelow(x, y) == y = None \/ (x # None /\ RatLeq(Val(y), Val(x)))

C5_RetrievalFilteredAndSorted ==
    retrieved # None =>
        LET s == Val(retrieved)
        IN  /\ \A i, j \in 1..Len(s) : s[i] = s[j] => i = j
            /\ {s[i] : i \in 1..Len(s)} =
                   {i \in DOMAIN store : store[i].is_filtered}
            /\ \A i \in 1..Len(s) - 1 :
                   NotBelow(store[s[i]].final_score, store[s[i + 1]].final_score)

\* a retrieval returned two rows, the first with the greater final_score
C5_Witness ==
    /\ retrieved # None
    /\ Len(Val(retrieved)) = 2
    /\ LET s == Val(retrieved)
       IN  RatLess(Val(store[s[2]].final_score), Val(store[s[1]].final_score))

\* a retrieval left out a row with is_filtered false and a final_score
\* above that of the row it returned
C5_Excluded ==
    /\ retrieved # None
    /\ Len(Val(retrieved)) = 1
    /\ \E i \in DOMAIN store :
          /\ ~store[i].is_filtered
          /\ store[i].final_score # None
          /\ RatLess(Val(store[Val(retrieved)[1]].final_score),
                     Val(store[i].final_score))

\* ----------------------------------------------------------------------
\* C6: two retrievals with no write between them return the same sequence,
\* also when rows have equal final_score.
C6_RetrievalsAgree ==
    [][(retrieved # None /\ retrieved' # None) => retrieved' = retrieved]_vars

\* ----------------------------------------------------------------------
\* C8: in every record classify_and_save builds and in every row it
\* leaves in the table, final_score is non-null exactly when
\* importance_score and recency_score both are, and is then their product.
ScoresConsistent(row) ==
    /\ row.final_score # None <=>
           (row.importance_score # None /\ row.recency_score # None)
    /\ row.final_score # None =>
           LET x == Val(row.importance_score)
               y == Val(row.recency_score)
               z == Val(row.final_score)
           IN  z.num * (x.den * y.den) = (x.num * y.num) * z.den

C8_FinalScoreIsProduct ==
    /\ \A p \in Procs :
          frame[p].article # None => ScoresConsistent(RecordOf(p))
    /\ \A i \in DOMAIN store : ScoresConsistent(store[i])

\* a row with importance 193/200 and recency 1/2 has final_score 193/400
C8_Witness ==
    \E i \in DOMAIN store :
        /\ store[i].final_score # None
        /\ RatEq(Val(store[i].importance_score), Rat(193, 200))
        /\ RatEq(Val(store[i].recency_score), Rat(1, 2))
        /\ RatEq(Val(store[i].final_score), Rat(193, 400))

\* ----------------------------------------------------------------------
\* the classification under SpecScore: what the scorer answered, and the
\* confidence and the product confidence x weight (in tenths) of a label
Answer == scorerIn.scorer
Classified == scored # None /\ ~Answer.raised
IndexOf(l) == CHOOSE i \in 1..Len(Answer.labels) : Answer.labels[i] = l
Confidence(l) == Answer.scores[IndexOf(l)]
Product(l) == Confidence(l) * LABEL_WEIGHTS[l]

C9_ImportanceIsWeightedSum ==
    Classified =>
        LET x == Val(Val(scored).importance_score)
            total == SumSeq([i \in 1..Len(Labels) |-> Product(Labels[i])])
        IN  /\ x.num * (Answer.den * WeightDen) = total * x.den
            /\ 5 * x.num >= x.den
            /\ x.num <= x.den

\* Scenario A: 0.9 on the cybersecurity label and 0.025 on each other
\* label give 0.965
C9_Witness ==
    /\ Classified
    /\ Answer.den = 40
    /\ Confidence(Labels[1]) = 36
    /\ \A i \in 2..Len(Labels) : Confidence(Labels[i]) = 1
    /\ RatEq(Val(Val(scored).importance_score), Rat(193, 200))

\* ----------------------------------------------------------------------
\* C10 as first stated: the category is one of the five labels, no label
\* has a greater confidence x weight, and of the labels with that product
\* it is the one declared first in LABEL_WEIGHTS, in whatever order the
\* scorer lists the labels.
DeclaredAt(l) == CHOOSE i \in 1..Len(Labels) : Labels[i] = l

C10_DeclaredFirstWins ==
    Classified =>
        LET c == Val(Val(scored).category)
        IN  /\ c \in Range(Labels)
            /\ \A l \in Range(Labels) : Product(l) <= Product(c)
            /\ \A l \in Range(Labels) :
                   Product(l) = Product(c) => DeclaredAt(c) <= DeclaredAt(l)

\* C10 as amended: the category is one of the five labels, no label has a
\* greater confidence x weight, and of the labels with that product it is
\* the one the scorer lists first in its result.
C10_ListedFirstWins ==
    Classified =>
        LET c == Val(Val(scored).category)
        IN  /\ c \in Range(Labels)
            /\ \A l \in Range(Labels) : Product(l) <= Product(c)
            /\ \A l \in Range(Labels) :
                   Product(l) = Product(c) => IndexOf(c) <= IndexOf(l)

\* two labels tie on the greatest product, the scorer lists the later
\* declared one first, and that one is the category
C10_Witness ==
    /\ Classified
    /\ LET c == Val(Val(scored).category)
       IN  \E l \in Range(Labels) :
              /\ l # c
              /\ Product(l) = Product(c)
              /\ DeclaredAt(l) < DeclaredAt(c)
              /\ IndexOf(c) < IndexOf(l)
              /\ Confidence(l) < Confidence(c)

\* ----------------------------------------------------------------------
\* C3: when a periodic cycle and a triggered cycle or an ingest run at the
\* same time and write the same id, no write fails on the other's, and the
\* row of the id is the whole record of one of the writes.
RaceArticles ==
    UNION {Range(b) : b \in RaceBatches}
        \cup UNION {Range(RSSFetch(SOURCES[k], feed, now).articles) :
                        k \in 1..Len(SOURCES), feed \in RaceFeeds,
                        now \in Times}

WholeRecords ==
    {ClassifyArticle(a, scorer, now) :
        a \in RaceArticles, scorer \in {TopicScorer("breach"), Raised},
        now \in Times}

C3_NoWriteFails == \A p \in Procs : response[p].error # "IntegrityError"

C3_RowsAreWhole ==
    \A i \in DOMAIN store : Columns(store[i]) \in WholeRecords

C3_ConcurrentWritesSafe == C3_NoWriteFails /\ C3_RowsAreWhole

\* ----------------------------------------------------------------------
\* the fetch under SpecFetch: the entries of the feed, those that have an
\* id or a link, and whether the network call or an entry raises
FeedEntries == IF feedIn.feed.raised THEN <<>> ELSE feedIn.feed.entries
HasKey(e) ==
    \/ e.id # None /\ e.id # Some("")
    \/ e.link # None /\ e.link # Some("")
KeyOf(e) == IF e.id # None /\ e.id # Some("") THEN Val(e.id) ELSE Val(e.link)
Keyed == SelectSeq(FeedEntries, HasKey)
FeedFails ==
    \/ feedIn.feed.raised
    \/ \E i \in 1..Len(Keyed) : Keyed[i].malformed

\* ----------------------------------------------------------------------
\* C11: fetch never raises; when the network call or the parsing of an
\* entry raises, it returns the empty list.
C11_FetchNeverRaises ==
    fetched # None =>
        /\ ~Val(fetched).raised
        /\ FeedFails => Val(fetched).articles = <<>>

\* a feed whose second entry is malformed, after an entry that is not:
\* fetch returned the empty list
C11_Witness ==
    /\ fetched # None
    /\ ~feedIn.feed.raised
    /\ Len(Keyed) >= 2
    /\ ~Keyed[1].malformed
    /\ Keyed[2].malformed
    /\ Val(fetched) = [raised |-> FALSE, articles |-> <<>>]

C13_IngestAcknowledgesAll ==
    [][LET f == frame["worker"]
           g == frame'["worker"]
       IN  /\ g.kind = "ingest" => g.n = g.done + Len(g.queue)
           /\ (f.kind = "ingest" /\ pc'["worker"] = "respond"
                  /\ response'["worker"].status = "ok") =>
                 /\ Len(f.queue) = 1
                 /\ response'["worker"].received = f.done + 1
                 /\ response'["worker"].received = f.n
           /\ (pc["worker"] = "idle" /\ pc'["worker"] = "respond"
                  /\ response'["worker"].status = "ok") =>
                 response'["worker"].received = 0]_vars

\* a batch of two items was acknowledged with received 2 and the
\* classification of both had failed
C13_Witness ==
    /\ pc["worker"] = "respond"
    /\ response["worker"].status = "ok"
    /\ response["worker"].received = 2
    /\ DOMAIN store = Ids
    /\ \A i \in Ids : store[i].importance_score = None

\* ----------------------------------------------------------------------
\* C14: a body in which an item lacks id, source or title never reaches the
\* handler of /ingest; the request is answered with a validation error
\* straight from idle, and the answer leaves every row of the table as it
\* was.
RequiredFields == {"id", "source", "title"}

C14_InvalidBatchRejected ==
    [][/\ frame'["worker"].kind = "ingest" =>
              frame'["worker"].missing \cap RequiredFields = {}
       /\ (response'["worker"].error = "ValidationError"
              /\ response["worker"].error # "ValidationError") =>
             /\ pc["worker"] = "idle"
             /\ pc'["worker"] = "respond"
             /\ store' = store]_vars

\* a request is answered 422 for a missing title while the table holds a
\* row committed before
C14_Witness ==
    /\ pc["worker"] = "respond"
    /\ response["worker"].error = "ValidationError"
    /\ "title" \in response["worker"].detail
    /\ "a" \in DOMAIN store

\* ----------------------------------------------------------------------
\* C15: an item without published_at is accepted: no request is rejected
\* for the absence of published_at alone.
C15_PublishedAtOptional ==
    \A p \in Procs :
        response[p].error = "ValidationError" =>
            response[p].detail # {"published_at"}

\* ----------------------------------------------------------------------
\* C16: every row of the table has a non-empty id and a non-empty title.
C16_NonEmptyIdAndTitle ==
    \A i \in DOMAIN store : i # "" /\ store[i].title # ""

\* ----------------------------------------------------------------------
\* C17: the commit of a classify_and_save leaves the row of its id with
\* ingested_at equal to the time of that commit, also when it overwrites.
C17_IngestedAtReset ==
    [][\A p \in Procs :
          (pc[p] = "commit" /\ pc'[p] = "return") =>
              store'[RecordOf(p).id].ingested_at = clock]_vars

\* ----------------------------------------------------------------------
\* C18: a classify_and_save calls merge at most once and commit at most
\* once; when one of them fails the error goes to the caller at that step:
\* the handler ends there with the error as its outcome and the table as
\* it was; and a call returns only after its record is in the table.
C18_StoreErrorPropagates ==
    [][\A p \in Procs :
          /\ frame'[p].merges <= 1
          /\ frame'[p].commits <= 1
          /\ (response'[p].error = "StoreError"
                 /\ response[p].error # "StoreError") =>
                /\ pc[p] \in {"classify", "commit"}
                /\ pc'[p] \in {"respond", "crashed"}
                /\ frame'[p] = IdleFrame
                /\ store' = store
          /\ (pc[p] = "commit" /\ pc'[p] = "return") =>
                /\ frame[p].merges = 1
                /\ frame'[p].commits = 1
                /\ Columns(store'[RecordOf(p).id]) = RecordOf(p)]_vars

\* the commit of the second item of a batch failed: the request is answered
\* with the error, and the row of the first item is in the table
C18_Witness ==
    /\ pc["worker"] = "respond"
    /\ response["worker"].error = "StoreError"
    /\ DOMAIN store = {"a"}

\* ----------------------------------------------------------------------
\* C19: the periodic task never ends unless it is cancelled: it is in a
\* cycle, or in the sleep that the next cycle follows.
C19_PeriodicRepeatsForever == pc["periodic"] \in {"sleep", "fetch", "classify", "commit", "return", "complete", "cancelled"}

\* ----------------------------------------------------------------------
\* C20: the recency of a classification is 1 when published_at is not
\* before the clock, with or without a timezone, and in every case is
\* above 0 and at most 1.
C20_RecencyInRange ==
    Classified =>
        LET r == Val(Val(scored).recency_score)
            published_at == Val(scorerIn.article).published_at
        IN  /\ published_at.t >= scorerIn.now => r.num = r.den
            /\ r.num > 0
            /\ r.num <= r.den

\* ----------------------------------------------------------------------
\* C21: in a cycle a session is open exactly while the items of one source
\* are classified and saved: the source yielded at least one item, every
\* item in the loop is of that source, and the session is closed when the
\* next source is fetched, when the cycle completes and when an exception
\* has ended it.
C21_SessionPerSource ==
    \A p \in Procs :
        LET f == frame[p]
        IN  /\ f.kind = "cycle" =>
                  /\ f.db = "open" <=> pc[p] \in {"classify", "commit", "return"}
                  /\ f.db = "open" =>
                        /\ f.queue # <<>>
                        /\ \A i \in 1..Len(f.queue) :
                              f.queue[i].source = SOURCES[f.src]
            /\ pc[p] \in {"sleep", "crashed", "idle", "respond"} =>
                  f.db = "closed"

\* the second source is about to be fetched after the first yielded items
C21_Witness ==
    /\ pc["periodic"] = "fetch"
    /\ frame["periodic"].src = 2
    /\ frame["periodic"].yielded # {}
    /\ frame["periodic"].db = "closed"

\* ----------------------------------------------------------------------
\* C22: a cycle starts at the first source of the registry and goes from a
\* source to the one after it, and to no other; the list a source yielded
\* changes only by losing its head, after that item went through one merge
\* and one commit that left its record in the table; and the cycle goes to
\* the next source only from a fetch that yielded nothing or from the
\* commit of the last item of the list.
C22_InOrderExactlyOnce ==
    [][\A p \in Procs :
          LET f == frame[p]
              g == frame'[p]
          IN  /\ (f.kind # "cycle" /\ g.kind = "cycle") =>
                    g.src = 1 /\ pc'[p] = "fetch"
              /\ (f.kind = "cycle" /\ g.kind = "cycle") =>
                    /\ g.src \in {f.src, f.src + 1}
                    /\ g.src = f.src + 1 =>
                          \/ pc[p] = "fetch" /\ f.queue = <<>>
                          \/ pc[p] = "return" /\ Len(f.queue) = 1
                    /\ pc[p] = "classify" =>
                          /\ g.queue = f.queue
                          /\ pc'[p] = "commit"
                          /\ Val(g.article).id = Head(f.queue).id
                          /\ Val(g.article).title = Head(f.queue).title
                    /\ pc[p] = "commit" =>
                          /\ g.queue = f.queue /\ g.article = f.article
                          /\ Columns(store'[Head(f.queue).id]) = Val(f.article)
                    /\ pc[p] = "return" =>
                          /\ f.merges = 1 /\ f.commits = 1
                          /\ g.done = IF pc'[p] = "classify" THEN f.done + 1 ELSE 0
                          /\ g.queue = Tail(f.queue)
                          /\ g.queue = <<>> <=> pc'[p] # "classify"]_vars

\* the second item of the second source is being written, after the first
\* source's
C22_Witness ==
    /\ pc["periodic"] = "commit"
    /\ frame["periodic"].src = 2
    /\ frame["periodic"].done = 1
    /\ frame["periodic"].yielded = {"a", "b"}
    /\ Val(frame["periodic"].article).id = "b"
    /\ DOMAIN store = {"a", "b"}

\* ----------------------------------------------------------------------
\* C23: while a periodic cycle is in progress and a worker is free, an
\* on-demand fetch can be dispatched and start before the cycle ends.
C23_TriggerNotStarved ==
    (/\ pc["periodic"] \in {"fetch", "classify", "commit", "return", "complete"}
     /\ pc["worker"] = "idle"
     /\ started["worker"] < MaxRuns) => ENABLED OnDemandFetch

\* ----------------------------------------------------------------------
\* C24: once the requests in flight have ended, the periodic task can be
\* cancelled at its sleep and also in a cycle between the fetch of two
\* sources; and a cancelled task holds no article in the middle of a
\* write and no open session.
C24_CancellableBetweenSources ==
    /\ (pc["worker"] = "idle" /\ pc["periodic"] = "sleep") => ENABLED Cancel
    /\ (/\ pc["worker"] = "idle"
        /\ pc["periodic"] = "fetch"
        /\ frame["periodic"].src > 1) => ENABLED Cancel
    /\ pc["periodic"] = "cancelled" =>
          /\ frame["periodic"].db = "closed"
          /\ frame["periodic"].article = None
          /\ frame["periodic"].queue = <<>>

\* ----------------------------------------------------------------------
\* C25: the model is loaded at most once, whatever the threads that call
\* _get_pipeline and however their calls overlap.
C25_LoadedAtMostOnce == pipeline.loads <= 1

\* ----------------------------------------------------------------------
\* C26: the record a classify_and_save builds, and every row of the table,
\* has importance_score, recency_score, final_score and category either all
\* null, with is_filtered false, or all set; the record of a call whose
\* classification failed is of the first kind, that of a call whose
\* classification succeeded of the second.
NullScored(row) ==
    /\ row.importance_score = None /\ row.recency_score = None
    /\ row.final_score = None /\ row.category = None
    /\ row.is_filtered = FALSE

AllScored(row) ==
    /\ row.importance_score # None /\ row.recency_score # None
    /\ row.final_score # None /\ row.category # None

C27_LastWriteWins ==
    [][/\ store' # store =>
             \E p \in Procs : pc[p] = "commit" /\ pc'[p] = "return"
       /\ \A p \in Procs :
             (pc[p] = "commit" /\ pc'[p] = "return") =>
                 LET row == RecordOf(p)
                     id == row.id
                 IN  /\ Columns(store'[id]) = row
                     /\ (frame[p].raised /\ id \in DOMAIN store) =>
                           /\ NullScored(store'[id])
                           /\ id \notin Filtered(store')
                     /\ (~frame[p].raised /\ id \in DOMAIN store) =>
                           AllScored(store'[id])
       /\ retrieved' # None =>
             /\ Range(Val(retrieved')) = Filtered(store')
             /\ \A i \in Range(Val(retrieved')) : ~NullScored(store'[i])]_vars

\* a failed classification has replaced a scored, filtered row of its id
C27_Witness ==
    \E p \in Procs :
        /\ pc[p] = "return"
        /\ frame[p].raised
        /\ frame[p].loaded # None
        /\ Val(frame[p].loaded).is_filtered
        /\ AllScored(Val(frame[p].loaded))
        /\ NullScored(store[RecordOf(p).id])

\* ----------------------------------------------------------------------
\* C28: a record that classify_and_save builds with is_filtered true, and a
\* row of the table with is_filtered true, has its three scores and its
\* category set and an importance_score above the threshold; and every row
\* a retrieval returned has a final_score.
AboveThreshold(row) ==
    LET x == Val(row.importance_score)
    IN  x.num * WeightDen > IMPORTANCE_THRESHOLD * x.den

C28_FilteredImpliesScored ==
    /\ \A p \in Procs :
          (frame[p].article # None /\ RecordOf(p).is_filtered) =>
              AllScored(RecordOf(p)) /\ AboveThreshold(RecordOf(p))
    /\ \A i \in DOMAIN store :
          store[i].is_filtered =>
              AllScored(store[i]) /\ AboveThreshold(store[i])
    /\ retrieved # None =>
          \A k \in 1..Len(Val(retrieved)) :
              store[Val(retrieved)[k]].final_score # None

\* a retrieval returned a row while the table held a null-scored one
C28_Witness ==
    /\ retrieved # None
    /\ Len(Val(retrieved)) = 1
    /\ \E i \in DOMAIN store : NullScored(store[i])
    /\ pc["worker"] = "respond"

\* ----------------------------------------------------------------------
\* C29: when the merge or the commit of the k-th item of a batch fails, the
\* handler of /ingest ends there: the caller is answered an error with no
\* count, the table is left as the k-1 commits before made it, and the rest
\* of the batch is dropped unclassified.  Every item that returned was
\* committed, and no row ever leaves the table.
C29_IngestNotAtomic ==
    [][LET f == frame["worker"]
           r == response'["worker"]
       IN  /\ (f.kind = "ingest" /\ r.status = "error") =>
                 /\ pc["worker"] \in {"classify", "commit"}
                 /\ pc'["worker"] = "respond"
                 /\ r.error = "StoreError"
                 /\ r.received = 0
                 /\ r.item = f.done + 1
                 /\ f.n = f.done + Len(f.queue)
                 /\ store' = store
                 /\ frame'["worker"] = IdleFrame
           /\ (f.kind = "ingest" /\ pc'["worker"] = "return") =>
                 /\ pc["worker"] = "commit"
                 /\ RecordOf("worker").id \in DOMAIN store'
                 /\ Columns(store'[RecordOf("worker").id]) = RecordOf("worker")
           /\ DOMAIN store \subseteq DOMAIN store']_vars

\* the second item of a batch failed at its write: the request is answered
\* an error and the first item, and nothing else, is in the table
C29_Witness ==
    /\ pc["worker"] = "respond"
    /\ response["worker"].error = "StoreError"
    /\ response["worker"].item = 2
    /\ DOMAIN store = {"a"}
    /\ store["a"].source = "api"

\* ----------------------------------------------------------------------
\* C30: what fetch returns is the empty list or one article for every entry
\* of the feed that has an id or a link, in the order of the feed; it is the
\* empty list whenever one of these entries raises, whatever its place in
\* the feed and however many entries before it were normalized.
C30_AllOrNothing ==
    fetched # None =>
        LET articles == Val(fetched).articles
        IN  /\ \/ articles = <<>>
               \/ /\ Len(articles) = Len(Keyed)
                  /\ \A i \in 1..Len(Keyed) : articles[i].id = KeyOf(Keyed[i])
            /\ (\E i \in 1..Len(Keyed) : Keyed[i].malformed) => articles = <<>>
            /\ (~FeedFails /\ Keyed # <<>>) => articles # <<>>

\* a feed of three entries with an id, the last of which raises: the two
\* normalized before it are not returned
C30_Witness ==
    /\ fetched # None
    /\ Len(Keyed) = 3
    /\ ~Keyed[1].malformed /\ ~Keyed[2].malformed /\ Keyed[3].malformed
    /\ Val(fetched).articles = <<>>

====
